---- MODULE Spec2Model ----
(***************************************************************************)
(* Frame-pair classification pipeline of app/server/pipeline/__init__.py:  *)
(* process_video_frames walks two video sources, hands every pair to       *)
(* load_and_process_frame_pair (solid-colour check, object detection,      *)
(* pattern matching), persists accepted pairs, logs rejected ones, writes  *)
(* the log file and zips the output tree.                                  *)
(*                                                                         *)
(* The file uses pathlib's Path (lines 175-303) without importing it; the  *)
(* model takes the name to resolve to pathlib.Path.                        *)
(***************************************************************************)
EXTENDS Integers, Sequences, FiniteSets, TLC

(* ------------------------------ bounds --------------------------------- *)
\* longest video, in frames
MaxFrames == 3
\* most pixels of an image handed to the solid colour check on its own
MaxPixels == 5
\* most references handed to the pattern matcher on its own
MaxRefs == 3

(* --------------------------- program constants ------------------------- *)
\* model_reason[:50]
ReasonCut == 50
\* f"{frame_count:05d}"
PadWidth == 5
\* thres_params.get('Black Threshold BW', 30)
BlackThreshDefault == 30
\* thres_params.get('White Threshold BW', 225)
WhiteThreshDefault == 225
\* thres_params.get('Solid Color Detection', 0.60), in percent
PercentageThreshDefault == 60
\* thres_params.get('Pattern Thresholding Value', 200)
SiftDistanceDefault == 200

(* ------------------------------- text ---------------------------------- *)
\* Python strings are sequences of one-character strings.
TxtFrameNone ==
    <<"E", "r", "r", "o", "r", ":", " ", "I", "n", "p", "u", "t", " ", "f", "r", "a", "m", "e", " ", "w", "a", "s", " ", "N", "o", "n", "e", ".">>
TxtModelError ==
    <<"E", "r", "r", "o", "r", " ", "i", "n", " ", "m", "o", "d", "e", "l", " ", "p", "r", "o", "c", "e", "s", "s", "i", "n", "g", ".">>
TxtFalse ==
    <<"F", "a", "l", "s", "e">>
TxtTrue ==
    <<"T", "r", "u", "e">>
TxtUpperFalse ==
    <<"F", "A", "L", "S", "E", ".">>
TxtBoth ==
    <<"T", "r", "u", "e", ",", " ", "n", "o", "t", " ", "F", "a", "l", "s", "e">>
TxtLong ==
    <<"T", "h", "e", " ", "i", "m", "a", "g", "e", " ", "s", "h", "o", "w", "s", " ", "a", " ", "p", "a", "v", "e", "d", " ", "r", "o", "a", "d", " ", "a", "n", "d", " ", "a", " ", "p", "a", "r", "k", "e", "d", " ", "v", "e", "h", "i", "c", "l", "e", ",", " ", "s", "o", " ", "t", "h", "e", " ", "a", "n", "s", "w", "e", "r", " ", "i", "s", " ", "T", "r", "u", "e", ".">>
TxtEmpty ==
    <<>>

\* Python's None where a str is expected, and a str value.
NoneVal == [isNone |-> TRUE, text |-> <<>>]
StrVal(t) == [isNone |-> FALSE, text |-> t]

\* case folding of re.IGNORECASE for the letters of the pattern 'False'
LowerChar(c) ==
    CASE c = "F" -> "f"
      [] c = "A" -> "a"
      [] c = "L" -> "l"
      [] c = "S" -> "s"
      [] c = "E" -> "e"
      [] OTHER -> c

\* the pattern r'False'
FalsePattern == TxtFalse

\* the search without re.IGNORECASE
SearchFalse_CaseSensitive(text) ==
    \E i \in 1..Len(text) :
        /\ i + Len(FalsePattern) - 1 <= Len(text)
        /\ \A j \in 1..Len(FalsePattern) : text[i + j - 1] = FalsePattern[j]

\* re.search(r'False', text, re.IGNORECASE) is not None
SearchFalse(text) ==
    \E i \in 1..Len(text) :
        /\ i + Len(FalsePattern) - 1 <= Len(text)
        /\ \A j \in 1..Len(FalsePattern) :
               LowerChar(text[i + j - 1]) = LowerChar(FalsePattern[j])

\* text[:n]
Slice(text, n) == IF Len(text) <= n THEN text ELSE SubSeq(text, 1, n)

(* ------------------------------ images --------------------------------- *)
\* A frame or pattern image: valid = FALSE is None; px are the pixels, each
\* <<b, g, r>> (a single-channel image uses the first component only); kp are
\* the SIFT descriptors detectAndCompute yields (one number each, distance
\* |a - b|); sift says whether detectAndCompute / bf.match raise cv2.error.
NoneImage == [valid |-> FALSE, color |-> FALSE, px |-> <<>>, kp |-> <<>>, sift |-> "ok"]
Img(color, px, kp, sift) ==
    [valid |-> TRUE, color |-> color, px |-> px, kp |-> kp, sift |-> sift]

\* cv2.cvtColor(image, cv2.COLOR_BGR2GRAY) of one pixel (8-bit fixed point)
BGR2GRAY(p) == (p[1] * 1868 + p[2] * 9617 + p[3] * 4899 + 8192) \div 16384

Intensity(image, i) ==
    IF image.color THEN BGR2GRAY(image.px[i]) ELSE image.px[i][1]

\* np.sum(gray_image <= v), np.sum(gray_image >= v)
CountLE(image, v) == Cardinality({i \in 1..Len(image.px) : Intensity(image, i) <= v})
CountGE(image, v) == Cardinality({i \in 1..Len(image.px) : Intensity(image, i) >= v})

\* lines 33-34: cv2.cvtColor raises cv2.error (!_src.empty()) on a
\* three-dimensional image without pixels, ahead of the size test of line 37
is_mostly_black_or_white_raises(image_cv) ==
    image_cv.valid /\ image_cv.color /\ Len(image_cv.px) = 0

\* the detector asking for more than the cutoff fraction
is_mostly_black_or_white_Strict(image_cv, black_threshold_val, white_threshold_val, percentage_threshold) ==
    IF ~image_cv.valid THEN FALSE
    ELSE LET total_pixels == Len(image_cv.px)
             black_pixels == CountLE(image_cv, black_threshold_val)
             white_pixels == CountGE(image_cv, white_threshold_val)
         IN  IF total_pixels = 0 THEN FALSE
             ELSE \/ black_pixels * 100 > percentage_threshold * total_pixels
                  \/ white_pixels * 100 > percentage_threshold * total_pixels

\* percentage_threshold is given in percent: b / total >= pct / 100
is_mostly_black_or_white(image_cv, black_threshold_val, white_threshold_val, percentage_threshold) ==
    IF ~image_cv.valid THEN FALSE
    ELSE LET total_pixels == Len(image_cv.px)
             black_pixels == CountLE(image_cv, black_threshold_val)
             white_pixels == CountGE(image_cv, white_threshold_val)
         IN  IF total_pixels = 0 THEN FALSE
             ELSE \/ black_pixels * 100 >= percentage_threshold * total_pixels
                  \/ white_pixels * 100 >= percentage_threshold * total_pixels

(* -------------------------- object detection --------------------------- *)
\* What ollama.chat does for one call: returns a response whose
\* ['message']['content'] is a str ("text"), returns one whose content is
\* None ("nullcontent"), returns one without the keys ("nokey"), or raises
\* ("exception").
ChatText(t) == [kind |-> "text", content |-> t]
ChatNullContent == [kind |-> "nullcontent", content |-> <<>>]
ChatNoKey == [kind |-> "nokey", content |-> <<>>]
ChatException == [kind |-> "exception", content |-> <<>>]

\* (objects_detected, model_response_content)
modelObjectDetection(frame_cv, chat) ==
    IF ~frame_cv.valid
    THEN [objects_detected |-> TRUE, content |-> StrVal(TxtFrameNone)]
    ELSE CASE chat.kind = "text" ->
                [objects_detected |-> ~SearchFalse(chat.content),
                 content |-> StrVal(chat.content)]
           \* line 79 has assigned None before re.search raises TypeError
           [] chat.kind = "nullcontent" ->
                [objects_detected |-> TRUE, content |-> NoneVal]
           [] OTHER ->
                [objects_detected |-> TRUE, content |-> StrVal(TxtModelError)]

(* --------------------------- pattern matching -------------------------- *)
\* a pattern name or None, as patternThresholding returns it
NoName == [isNone |-> TRUE, name |-> ""]
Name(n) == [isNone |-> FALSE, name |-> n]

\* Python truthiness of a str-or-None
Truthy(v) == ~v.isNone /\ v.name # ""

\* DMatch.distance of two descriptors
Dist(a, b) == IF a >= b THEN a - b ELSE b - a

\* index of the nearest descriptor of ds to d (the first one on a tie)
Nearest(d, ds) ==
    CHOOSE j \in 1..Len(ds) :
        /\ \A k \in 1..Len(ds) : Dist(d, ds[j]) <= Dist(d, ds[k])
        /\ \A k \in 1..(j - 1) : Dist(d, ds[k]) > Dist(d, ds[j])

\* bf.match(test_descriptors, pattern_descriptors) with crossCheck=True:
\* the pairs <<i, j>> that are each other's nearest neighbour
CrossMatches(test_descriptors, pattern_descriptors) ==
    {m \in (1..Len(test_descriptors)) \X (1..Len(pattern_descriptors)) :
        /\ Nearest(test_descriptors[m[1]], pattern_descriptors) = m[2]
        /\ Nearest(pattern_descriptors[m[2]], test_descriptors) = m[1]}

\* len([m for m in matches if m.distance < threshold_match_val])
NumGoodMatches(test_descriptors, pattern_descriptors, threshold_match_val) ==
    Cardinality({m \in CrossMatches(test_descriptors, pattern_descriptors) :
        Dist(test_descriptors[m[1]], pattern_descriptors[m[2]]) < threshold_match_val})

\* whether the loop body reaches the match for this pattern (no continue)
PatternUsable(pattern) ==
    /\ pattern.img.valid
    /\ pattern.img.sift = "ok"
    /\ Len(pattern.img.kp) > 0

\* the loop with a later reference of equal count replacing the earlier one
RECURSIVE ScanPatterns_LastWins(_, _, _, _, _, _)
ScanPatterns_LastWins(test, patterns, threshold_match_val, k, best_match_name, max_good_matches) ==
    IF k > Len(patterns)
    THEN [best_match_name |-> best_match_name, max_good_matches |-> max_good_matches]
    ELSE LET pattern == patterns[k]
             num_good_matches ==
                 NumGoodMatches(test.kp, pattern.img.kp, threshold_match_val)
         IN  IF PatternUsable(pattern) /\ num_good_matches >= max_good_matches
             THEN ScanPatterns_LastWins(test, patterns, threshold_match_val, k + 1,
                                        Name(pattern.name), num_good_matches)
             ELSE ScanPatterns_LastWins(test, patterns, threshold_match_val, k + 1,
                                        best_match_name, max_good_matches)

\* the loop ending at the first reference that cannot be used
RECURSIVE ScanPatterns_StopsAtFailure(_, _, _, _, _, _)
ScanPatterns_StopsAtFailure(test, patterns, threshold_match_val, k, best_match_name, max_good_matches) ==
    IF k > Len(patterns) \/ ~PatternUsable(patterns[k])
    THEN [best_match_name |-> best_match_name, max_good_matches |-> max_good_matches]
    ELSE LET pattern == patterns[k]
             num_good_matches ==
                 NumGoodMatches(test.kp, pattern.img.kp, threshold_match_val)
         IN  IF num_good_matches > max_good_matches
             THEN ScanPatterns_StopsAtFailure(test, patterns, threshold_match_val,
                                              k + 1, Name(pattern.name), num_good_matches)
             ELSE ScanPatterns_StopsAtFailure(test, patterns, threshold_match_val,
                                              k + 1, best_match_name, max_good_matches)

\* the for loop over loaded_pattern_images_data from position k on, with the
\* running best_match_name / max_good_matches
RECURSIVE ScanPatterns(_, _, _, _, _, _)
ScanPatterns(test, patterns, threshold_match_val, k, best_match_name, max_good_matches) ==
    IF k > Len(patterns)
    THEN [best_match_name |-> best_match_name, max_good_matches |-> max_good_matches]
    ELSE LET pattern == patterns[k]
             num_good_matches ==
                 NumGoodMatches(test.kp, pattern.img.kp, threshold_match_val)
         IN  IF PatternUsable(pattern) /\ num_good_matches > max_good_matches
             THEN ScanPatterns(test, patterns, threshold_match_val, k + 1,
                               Name(pattern.name), num_good_matches)
             ELSE ScanPatterns(test, patterns, threshold_match_val, k + 1,
                               best_match_name, max_good_matches)

NoPatternMatch == "No_Pattern_Match"

\* lines 113-114: cv2.cvtColor raises cv2.error on a three-dimensional test
\* image without pixels, outside every try block
patternThresholding_raises(test_image_cv) ==
    test_image_cv.valid /\ test_image_cv.color /\ Len(test_image_cv.px) = 0

\* the matcher answering with the sentinel for a query without keypoints
patternThresholding_SentinelWithoutFeatures(test_image_cv, loaded_pattern_images_data, threshold_match_val) ==
    IF ~test_image_cv.valid THEN NoName
    ELSE IF test_image_cv.sift = "error" THEN NoName
    ELSE IF Len(test_image_cv.kp) = 0 THEN Name(NoPatternMatch)
    ELSE LET r == ScanPatterns(test_image_cv, loaded_pattern_images_data,
                               threshold_match_val, 1, NoName, 0)
         IN  IF r.max_good_matches > 0 THEN r.best_match_name
             ELSE Name(NoPatternMatch)

patternThresholding(test_image_cv, loaded_pattern_images_data, threshold_match_val) ==
    IF ~test_image_cv.valid THEN NoName
    ELSE IF test_image_cv.sift = "error" THEN NoName
    ELSE IF Len(test_image_cv.kp) = 0 THEN NoName
    ELSE LET r == ScanPatterns(test_image_cv, loaded_pattern_images_data,
                               threshold_match_val, 1, NoName, 0)
         IN  IF r.max_good_matches > 0 THEN r.best_match_name
             ELSE Name(NoPatternMatch)

(* ------------------------------- files --------------------------------- *)
RECURSIVE Digits(_)
Digits(n) == IF n < 10 THEN <<n>> ELSE Digits(n \div 10) \o <<n % 10>>

\* the index written without padding
Pad05_Unpadded(n) == Digits(n)

\* f"{n:05d}"
Pad05(n) ==
    LET ds == Digits(n)
    IN  IF Len(ds) >= PadWidth THEN ds
        ELSE [i \in 1..(PadWidth - Len(ds)) |-> 0] \o ds

\* f"raw_frame_{frame_count:05d}.png", f"realsense_frame_{frame_count:05d}.png"
FrameName(stem, n) == [stem |-> stem, num |-> Pad05(n), ext |-> ".png"]
RawStem == "raw_frame_"
RealsenseStem == "realsense_frame_"

\* "removed_images_log.txt"
LogFileName == [stem |-> "removed_images_log", num |-> <<>>, ext |-> ".txt"]

\* a file of the output tree: the directories below output_base_dir, the name
File(dir, name) == [dir |-> dir, name |-> name]

\* sort_into_folders with the realsense image filed under another folder
sort_into_folders_Split(tree, name_folder, raw_image_name, realsense_image_name) ==
    tree \cup {File(<<name_folder, "raw">>, raw_image_name),
               File(<<"Accepted", "realsense">>, realsense_image_name)}

\* the tree after sort_into_folders wrote both images
sort_into_folders(tree, name_folder, raw_image_name, realsense_image_name) ==
    tree \cup {File(<<name_folder, "raw">>, raw_image_name),
               File(<<name_folder, "realsense">>, realsense_image_name)}

\* the lines create_text_file_with_removed_images writes
LogHeader == [file_name |-> LogFileName, reason |-> [text |-> "Log of images removed or not fitting criteria:", arg |-> <<>>]]
create_text_file_with_removed_images(removed_images_log) ==
    <<LogHeader>> \o removed_images_log

\* the arcnames create_zip_from_directory writes: every file below the tree
create_zip_from_directory(tree) == tree

(* ---------------------------- the evaluator ---------------------------- *)
\* a flag set to False read as if it were absent
Get_FalseAsAbsent(flag, default) ==
    IF flag = "on" THEN TRUE ELSE default

\* dict.get(key, default) of a stage flag that may be absent from the dict
Get(flag, default) ==
    IF flag = "absent" THEN default ELSE flag = "on"

\* the solid-frame rejection worded as a bare description
RejectSolid_Reworded == [text |-> "mostly solid color", arg |-> <<>>]

RejectSolid == [text |-> "Rejected: Mostly black or white", arg |-> <<>>]
RejectObjects(model_reason) ==
    [text |-> "Rejected: Man-made objects detected (%s...)",
     arg |-> Slice(model_reason, ReasonCut)]
Label(l) == [text |-> l, arg |-> <<>>]
Uncategorized == "Uncategorized"
NoPatternsAvailable == "No_Patterns_Available"

\* the classification name with the matcher asked even when no pattern loaded
classification_name_MatchesEmptyList(realsense_frame_cv, loaded_pattern_images_data, run_pattern_matching, thresh) ==
    IF ~run_pattern_matching THEN Uncategorized
    ELSE LET best_match_name ==
                 patternThresholding(realsense_frame_cv,
                                     loaded_pattern_images_data, thresh)
         IN  IF Truthy(best_match_name) THEN best_match_name.name
             ELSE NoPatternMatch

\* the classification name with a label of its own for a matcher answer of None
classification_name_NullOwnLabel(realsense_frame_cv, loaded_pattern_images_data, run_pattern_matching, thresh) ==
    IF ~run_pattern_matching THEN Uncategorized
    ELSE IF Len(loaded_pattern_images_data) = 0 THEN NoPatternsAvailable
    ELSE LET best_match_name ==
                 patternThresholding(realsense_frame_cv,
                                     loaded_pattern_images_data, thresh)
         IN  IF Truthy(best_match_name) THEN best_match_name.name
             ELSE IF best_match_name.isNone THEN "No_Features_Detected"
             ELSE NoPatternMatch

\* stage 3 of load_and_process_frame_pair: the classification name
classification_name(realsense_frame_cv, loaded_pattern_images_data, run_pattern_matching, thresh) ==
    IF ~run_pattern_matching THEN Uncategorized
    ELSE IF Len(loaded_pattern_images_data) = 0 THEN NoPatternsAvailable
    ELSE LET best_match_name ==
                 patternThresholding(realsense_frame_cv,
                                     loaded_pattern_images_data, thresh)
         IN  IF Truthy(best_match_name) THEN best_match_name.name
             ELSE NoPatternMatch

\* the evaluator with object detection run ahead of the solid colour check
load_and_process_frame_pair_ObjectsFirst(raw_frame_cv, realsense_frame_cv, loaded_pattern_images_data, run_solid_color_check, run_object_detection, run_pattern_matching, chat, thresh) ==
    LET solid == is_mostly_black_or_white(realsense_frame_cv, BlackThreshDefault,
                                          WhiteThreshDefault, PercentageThreshDefault)
        det == modelObjectDetection(raw_frame_cv, chat)
        c1 == IF run_object_detection THEN <<"objects">> ELSE <<>>
        c2 == IF run_solid_color_check THEN c1 \o <<"solid">> ELSE c1
        c3 == IF run_pattern_matching /\ Len(loaded_pattern_images_data) > 0
              THEN c2 \o <<"pattern">> ELSE c2
    IN  IF run_object_detection /\ det.objects_detected
        THEN IF det.content.isNone
             THEN [raised |-> TRUE, error |-> "TypeError", accepted |-> FALSE, result |-> Label(""),
                   calls |-> c1]
             ELSE [raised |-> FALSE, error |-> "", accepted |-> FALSE,
                   result |-> RejectObjects(det.content.text), calls |-> c1]
        ELSE IF run_solid_color_check /\ solid
        THEN [raised |-> FALSE, error |-> "", accepted |-> FALSE, result |-> RejectSolid,
              calls |-> c2]
        ELSE [raised |-> FALSE, error |-> "", accepted |-> TRUE,
              result |-> Label(classification_name(realsense_frame_cv,
                                   loaded_pattern_images_data,
                                   run_pattern_matching, thresh)),
              calls |-> c3]

\* load_and_process_frame_pair: raised = an exception leaves the function;
\* otherwise (accepted, reason_or_category); calls = the stage functions
\* invoked, in order
load_and_process_frame_pair(raw_frame_cv, realsense_frame_cv, loaded_pattern_images_data, run_solid_color_check, run_object_detection, run_pattern_matching, chat, thresh) ==
    LET solid == is_mostly_black_or_white(realsense_frame_cv, BlackThreshDefault,
                                          WhiteThreshDefault, PercentageThreshDefault)
        det == modelObjectDetection(raw_frame_cv, chat)
        c1 == IF run_solid_color_check THEN <<"solid">> ELSE <<>>
        c2 == IF run_object_detection THEN c1 \o <<"objects">> ELSE c1
        c3 == IF run_pattern_matching /\ Len(loaded_pattern_images_data) > 0
              THEN c2 \o <<"pattern">> ELSE c2
    IN  IF run_solid_color_check /\ is_mostly_black_or_white_raises(realsense_frame_cv)
        THEN [raised |-> TRUE, error |-> "cv2.error", accepted |-> FALSE,
              result |-> Label(""), calls |-> c1]
        ELSE IF run_solid_color_check /\ solid
        THEN [raised |-> FALSE, error |-> "", accepted |-> FALSE, result |-> RejectSolid,
              calls |-> c1]
        ELSE IF run_object_detection /\ det.objects_detected
        THEN IF det.content.isNone
             \* model_reason[:50] on None: TypeError
             THEN [raised |-> TRUE, error |-> "TypeError", accepted |-> FALSE, result |-> Label(""),
                   calls |-> c2]
             ELSE [raised |-> FALSE, error |-> "", accepted |-> FALSE,
                   result |-> RejectObjects(det.content.text), calls |-> c2]
        ELSE IF /\ run_pattern_matching
                /\ Len(loaded_pattern_images_data) > 0
                /\ patternThresholding_raises(realsense_frame_cv)
        THEN [raised |-> TRUE, error |-> "cv2.error", accepted |-> FALSE,
              result |-> Label(""), calls |-> c3]
        ELSE [raised |-> FALSE, error |-> "", accepted |-> TRUE,
              result |-> Label(classification_name(realsense_frame_cv,
                                   loaded_pattern_images_data,
                                   run_pattern_matching, thresh)),
              calls |-> c3]

(* ---------------------------- environment ------------------------------ *)
MidGray == <<128, 128, 128>>
White == <<255, 255, 255>>

\* frames a video can hold: a textured mid-gray frame, a blank mid-gray
\* frame without SIFT features, an all-white frame
GrayTextured == Img(TRUE, <<MidGray, MidGray>>, <<10, 50>>, "ok")
GrayBlank == Img(TRUE, <<MidGray, MidGray>>, <<>>, "ok")
AllWhite == Img(TRUE, <<White, White>>, <<>>, "ok")
RealsenseFrames == {GrayTextured, GrayBlank, AllWhite}
RawFrames == {GrayTextured}

\* pattern image files: what cv2.imread gives for the path (None for "none")
PatternFile(name, img, loads) == [name |-> name, img |-> img, loads |-> loads]
Unreadable == PatternFile("broken.png", NoneImage, "none")
PatternA == PatternFile("a.png", Img(TRUE, <<MidGray>>, <<10>>, "ok"), "ok")
PatternB == PatternFile("b.png", Img(TRUE, <<MidGray>>, <<50, 12>>, "ok"), "ok")
PatternPathLists == {<<>>, <<Unreadable>>, <<Unreadable, PatternA, PatternB>>}

\* pipeline_processes_config: each stage flag on, off or absent from the dict
StageConfig(solid, obj, pat) == [solid |-> solid, obj |-> obj, pat |-> pat]
Configs ==
    {StageConfig(s, o, p) : s \in {"on", "off"}, o \in {"on", "off"},
                            p \in {"on", "off", "absent"}}
    \cup {StageConfig("absent", "absent", "absent")}

\* what the inference client may do on one call
ChatOutcomes ==
    {ChatText(TxtFalse), ChatText(TxtUpperFalse), ChatText(TxtTrue),
     ChatText(TxtLong), ChatException, ChatNoKey, ChatNullContent}
NoChat == [kind |-> "not called", content |-> <<>>]

\* a video file: whether VideoCapture opens it, and its number of frames
Videos == [opens : BOOLEAN, len : 0..MaxFrames]

\* files left under output_base_dir by an earlier run of the same job
StaleTree == {File(<<Uncategorized, "raw">>, FrameName(RawStem, 7)),
              File(<<Uncategorized, "realsense">>, FrameName(RealsenseStem, 7))}

\* cv2.cvtColor(pattern_cv_img, cv2.COLOR_BGR2GRAY)
ToGray(img) ==
    [img EXCEPT !.color = FALSE,
                !.px = [i \in 1..Len(img.px) |-> <<BGR2GRAY(img.px[i]), 0, 0>>]]

\* the loading loop of process_video_frames
RECURSIVE LoadPatterns(_)
LoadPatterns(paths) ==
    IF paths = <<>> THEN <<>>
    ELSE LET f == Head(paths)
             rest == LoadPatterns(Tail(paths))
         IN  IF f.loads = "ok" /\ f.img.valid
             THEN <<[img |-> ToGray(f.img), name |-> f.name]>> \o rest
             ELSE rest

(* ------------------- stage functions called on their own --------------- *)
\* the arguments of one call of a stage function: fn names the function
Probe(fn, image, raw, patterns, outcome, flags) ==
    [fn |-> fn, image |-> image, raw |-> raw, patterns |-> patterns,
     chat |-> outcome, flags |-> flags]
AllOn == [solid |-> "on", obj |-> "on", pat |-> "on"]
NoProbe == Probe("none", NoneImage, NoneImage, <<>>, [kind |-> "not called", content |-> <<>>], AllOn)

\* what a call gave: raised, or a bool, a name-or-None, a text, a verdict
NoVerdict == [accepted |-> FALSE, result |-> [text |-> "", arg |-> <<>>], calls |-> <<>>]
Answer(done, raised, bool, name, text, verdict) ==
    [done |-> done, raised |-> raised, bool |-> bool, name |-> name,
     text |-> text, verdict |-> verdict]
NoAnswer == Answer(FALSE, FALSE, FALSE, NoName, NoneVal, NoVerdict)

(* ------------------------------- state --------------------------------- *)
VARIABLES
    config,                 \* pipeline_processes_config
    pattern_image_paths,    \* pattern_image_paths
    rawVideo, rsVideo,      \* the files behind the two paths
    pc,                     \* position in process_video_frames
    outTree,                \* files below output_base_dir
    loaded_patterns,        \* loaded_patterns
    cap_raw, cap_realsense, \* "none", "open", "unopened", "released"
    rawNext, rsNext,        \* frames delivered so far by each capture
    raw_frame, realsense_frame,
    frame_count, processed_frame_count,
    removed_images_log_data,
    logFile,                \* lines of removed_images_log.txt
    zipFile,                \* downloads/Results_<job_id>.zip
    result,                 \* what the call returned or raised
    verdicts,               \* history: what load_and_process_frame_pair returned
    calls,                  \* history: stage functions run for the last pair
    chat,                   \* history: what the client did for the last pair
    probe,                  \* a stage function called on its own: its arguments
    answer                  \* what that call gave

vars == <<config, pattern_image_paths, rawVideo, rsVideo, pc, outTree,
          loaded_patterns, cap_raw, cap_realsense, rawNext, rsNext, raw_frame,
          realsense_frame, frame_count, processed_frame_count,
          removed_images_log_data, logFile, zipFile, result, verdicts, calls,
          chat, probe, answer>>

NoZip == [exists |-> FALSE, entries |-> {}]
Running == [kind |-> "running", count |-> 0, zip |-> NoName]
Raised(e) == [kind |-> e, count |-> 0, zip |-> NoName]
\* the return value counting accepted pairs only, as the log line of 377 does
Returned_AcceptedOnly(n, z) ==
    [kind |-> "returned", count |-> n - Len(removed_images_log_data), zip |-> z]
Returned(n, z) == [kind |-> "returned", count |-> n, zip |-> z]
ZipName == "Results_job.zip"

Init ==
    /\ config \in Configs
    /\ pattern_image_paths \in PatternPathLists
    /\ rawVideo \in Videos
    /\ rsVideo \in Videos
    /\ pc = "Idle"
    /\ outTree \in {{}, StaleTree}
    /\ loaded_patterns = <<>>
    /\ cap_raw = "none"
    /\ cap_realsense = "none"
    /\ rawNext = 0
    /\ rsNext = 0
    /\ raw_frame = NoneImage
    /\ realsense_frame = NoneImage
    /\ frame_count = 0
    /\ processed_frame_count = 0
    /\ removed_images_log_data = <<>>
    /\ logFile = <<>>
    /\ zipFile = NoZip
    /\ result = Running
    /\ verdicts = <<>>
    /\ calls = <<>>
    /\ chat = NoChat
    /\ probe = NoProbe
    /\ answer = NoAnswer

(* --------------------- steps of process_video_frames ------------------- *)
\* the open check with the test of the RealSense capture left out
OpenFailure_RawOnly(raw_opened, realsense_opened) ==
    IF ~raw_opened THEN "raw" ELSE "none"

\* lines 320-326: which capture, if any, makes the call raise IOError
OpenFailure(raw_opened, realsense_opened) ==
    IF ~raw_opened THEN "raw"
    ELSE IF ~realsense_opened THEN "realsense"
    ELSE "none"

\* cap.read() on a capture: a frame is returned while the capture is opened
\* and the file has frames left
HasFrame(cap, video, next) == cap = "open" /\ next < video.len

\* the loop going on while either read returned a frame
PairRead_Either(ret_raw, ret_realsense) == ret_raw \/ ret_realsense

\* line 347: the loop goes on when both reads returned a frame
PairRead(ret_raw, ret_realsense) == ret_raw /\ ret_realsense

\* the verdict logged whether or not the pair was accepted
LogVerdict_Always(log, accepted, raw_frame_name, reason_or_category) ==
    Append(log, [file_name |-> raw_frame_name, reason |-> reason_or_category])

\* a rejection put at the front of the log
LogVerdict_Prepend(log, accepted, raw_frame_name, reason_or_category) ==
    IF ~accepted
    THEN <<[file_name |-> raw_frame_name, reason |-> reason_or_category]>> \o log
    ELSE log

\* a rejection written over the latest entry of the log
LogVerdict_ReplaceLast(log, accepted, raw_frame_name, reason_or_category) ==
    IF ~accepted
    THEN IF log = <<>>
         THEN <<[file_name |-> raw_frame_name, reason |-> reason_or_category]>>
         ELSE [log EXCEPT ![Len(log)] =
                   [file_name |-> raw_frame_name, reason |-> reason_or_category]]
    ELSE log

\* lines 366-367: removed_images_log_data after the verdict of one pair
LogVerdict(log, accepted, raw_frame_name, reason_or_category) ==
    IF ~accepted
    THEN Append(log, [file_name |-> raw_frame_name, reason |-> reason_or_category])
    ELSE log

\* line 382: os.listdir(output_base_dir) is not empty
HasContent(tree) == tree # {}

(* ------------------------------ actions -------------------------------- *)
\* the output directory created without removing what it holds
ResetOutputDir_KeepsContent(tree) == tree

\* lines 293-295: shutil.rmtree when the directory exists, then mkdir
ResetOutputDir(tree) == {}

\* lines 290-314: empty the job's output directory, load the patterns
Setup ==
    /\ pc = "Idle"
    /\ UNCHANGED <<probe, answer>>
    /\ outTree' = ResetOutputDir(outTree)
    /\ loaded_patterns' =
           IF Get(config.pat, FALSE) /\ Len(pattern_image_paths) > 0
           THEN LoadPatterns(pattern_image_paths)
           ELSE <<>>
    /\ pc' = "Opening"
    /\ UNCHANGED <<config, pattern_image_paths, rawVideo, rsVideo, cap_raw,
                   cap_realsense, rawNext, rsNext, raw_frame, realsense_frame,
                   frame_count, processed_frame_count, removed_images_log_data,
                   logFile, zipFile, result, verdicts, calls, chat>>

\* lines 317-330: open both captures, raise IOError when one is not opened
OpenSources ==
    /\ pc = "Opening"
    /\ UNCHANGED <<probe, answer>>
    /\ LET failure == OpenFailure(rawVideo.opens, rsVideo.opens)
           raw_cap == IF rawVideo.opens THEN "open" ELSE "unopened"
       IN  /\ cap_realsense' = IF rsVideo.opens THEN "open" ELSE "unopened"
           /\ IF failure = "raw"
              THEN /\ cap_raw' = raw_cap
                   /\ result' = Raised("IOError: Could not open raw video")
                   /\ pc' = "Failed"
              ELSE IF failure = "realsense"
              \* cap_raw.release() before the raise
              THEN /\ cap_raw' = IF raw_cap = "open" THEN "released" ELSE raw_cap
                   /\ result' = Raised("IOError: Could not open RealSense video")
                   /\ pc' = "Failed"
              ELSE /\ cap_raw' = raw_cap
                   /\ result' = result
                   /\ pc' = "Read"
    /\ frame_count' = 0
    /\ processed_frame_count' = 0
    /\ removed_images_log_data' = <<>>
    /\ UNCHANGED <<config, pattern_image_paths, rawVideo, rsVideo, outTree,
                   loaded_patterns, rawNext, rsNext, raw_frame, realsense_frame,
                   logFile, zipFile, verdicts, calls, chat>>

\* lines 344-349: one read from each capture, break when either gave nothing
ReadPair ==
    /\ pc = "Read"
    /\ UNCHANGED <<probe, answer>>
    /\ LET ret_raw == HasFrame(cap_raw, rawVideo, rawNext)
           ret_realsense == HasFrame(cap_realsense, rsVideo, rsNext)
       IN  /\ rawNext' = IF ret_raw THEN rawNext + 1 ELSE rawNext
           /\ rsNext' = IF ret_realsense THEN rsNext + 1 ELSE rsNext
           /\ IF ret_raw THEN raw_frame' \in RawFrames
                         ELSE raw_frame' = NoneImage
           /\ IF ret_realsense THEN realsense_frame' \in RealsenseFrames
                               ELSE realsense_frame' = NoneImage
           /\ pc' = IF PairRead(ret_raw, ret_realsense) THEN "Evaluate"
                    ELSE "Exhausted"
    /\ UNCHANGED <<config, pattern_image_paths, rawVideo, rsVideo, outTree,
                   loaded_patterns, cap_raw, cap_realsense, frame_count,
                   processed_frame_count, removed_images_log_data, logFile,
                   zipFile, result, verdicts, calls, chat>>

\* lines 351-372: name the pair, evaluate it, log a rejection, count
EvaluatePair ==
    /\ pc = "Evaluate"
    /\ UNCHANGED <<probe, answer>>
    /\ \E c \in ChatOutcomes :
         LET raw_frame_name == FrameName(RawStem, frame_count)
             realsense_frame_name == FrameName(RealsenseStem, frame_count)
             v == load_and_process_frame_pair(
                      raw_frame, realsense_frame, loaded_patterns,
                      Get(config.solid, TRUE), Get(config.obj, TRUE),
                      Get(config.pat, TRUE), c, SiftDistanceDefault)
             called == \E i \in 1..Len(v.calls) : v.calls[i] = "objects"
         IN  /\ calls' = v.calls
             /\ chat' = IF called THEN c ELSE NoChat
             /\ IF v.raised
                THEN /\ pc' = "Failed"
                     /\ result' = Raised(v.error)
                     /\ UNCHANGED <<outTree, removed_images_log_data, verdicts,
                                    processed_frame_count, frame_count>>
                ELSE /\ outTree' =
                            IF v.accepted
                            THEN sort_into_folders(outTree, v.result.text,
                                                   raw_frame_name,
                                                   realsense_frame_name)
                            ELSE outTree
                     /\ removed_images_log_data' =
                            LogVerdict(removed_images_log_data, v.accepted,
                                       raw_frame_name, v.result)
                     /\ verdicts' = Append(verdicts,
                                           [accepted |-> v.accepted,
                                            result |-> v.result])
                     /\ processed_frame_count' = processed_frame_count + 1
                     /\ frame_count' = frame_count + 1
                     /\ result' = result
                     /\ pc' = "Read"
    /\ UNCHANGED <<config, pattern_image_paths, rawVideo, rsVideo,
                   loaded_patterns, cap_raw, cap_realsense, rawNext, rsNext,
                   raw_frame, realsense_frame, logFile, zipFile>>

\* lines 375-376
ReleaseSources ==
    /\ pc = "Exhausted"
    /\ UNCHANGED <<probe, answer>>
    /\ cap_raw' = IF cap_raw = "open" THEN "released" ELSE cap_raw
    /\ cap_realsense' = IF cap_realsense = "open" THEN "released" ELSE cap_realsense
    /\ pc' = "Finalizing"
    /\ UNCHANGED <<config, pattern_image_paths, rawVideo, rsVideo, outTree,
                   loaded_patterns, rawNext, rsNext, raw_frame, realsense_frame,
                   frame_count, processed_frame_count, removed_images_log_data,
                   logFile, zipFile, result, verdicts, calls, chat>>

\* line 379: the log file is written into output_base_dir
WriteLog ==
    /\ pc = "Finalizing"
    /\ UNCHANGED <<probe, answer>>
    /\ logFile' = create_text_file_with_removed_images(removed_images_log_data)
    /\ outTree' = outTree \cup {File(<<>>, LogFileName)}
    /\ pc' = "Archiving"
    /\ UNCHANGED <<config, pattern_image_paths, rawVideo, rsVideo,
                   loaded_patterns, cap_raw, cap_realsense, rawNext, rsNext,
                   raw_frame, realsense_frame, frame_count,
                   processed_frame_count, removed_images_log_data, zipFile,
                   result, verdicts, calls, chat>>

\* lines 382-394: zip when os.listdir(output_base_dir) is not empty, return
Archive ==
    /\ pc = "Archiving"
    /\ UNCHANGED <<probe, answer>>
    /\ IF HasContent(outTree)
       THEN /\ zipFile' = [exists |-> TRUE,
                           entries |-> create_zip_from_directory(outTree)]
            /\ result' = Returned(processed_frame_count, Name(ZipName))
       ELSE /\ zipFile' = zipFile
            /\ result' = Returned(processed_frame_count, NoName)
    /\ pc' = "Done"
    /\ UNCHANGED <<config, pattern_image_paths, rawVideo, rsVideo, outTree,
                   loaded_patterns, cap_raw, cap_realsense, rawNext, rsNext,
                   raw_frame, realsense_frame, frame_count,
                   processed_frame_count, removed_images_log_data, logFile,
                   verdicts, calls, chat>>

Next ==
    \/ Setup
    \/ OpenSources
    \/ ReadPair
    \/ EvaluatePair
    \/ ReleaseSources
    \/ WriteLog
    \/ Archive

Spec == Init /\ [][Next]_vars

(* ------------------- stage functions called on their own --------------- *)
SeqsUpTo(S, n) == UNION {[1..k -> S] : k \in 0..n}

\* pixel intensities around the two cutoffs
Gray1(v) == <<v, 0, 0>>
ProbeIntensities == {Gray1(30), Gray1(31), Gray1(128), Gray1(224), Gray1(225)}
Blue == <<255, 0, 0>>
Black == <<0, 0, 0>>

\* images for is_mostly_black_or_white: None, single-channel images of up to
\* MaxPixels pixels (none included), colour images of up to two pixels
SolidImages ==
    {NoneImage}
    \cup {Img(FALSE, px, <<>>, "ok") : px \in SeqsUpTo(ProbeIntensities, MaxPixels)}
    \cup {Img(TRUE, px, <<>>, "ok") : px \in SeqsUpTo({MidGray, White, Blue, Black}, 2)}

\* responses for modelObjectDetection
TxtLowerFalse == <<"f", "a", "l", "s", "e">>
TxtNo == <<"N", "o">>
DetectChats ==
    ChatOutcomes \cup {ChatText(TxtBoth), ChatText(TxtEmpty),
                       ChatText(TxtLowerFalse), ChatText(TxtNo)}

\* query images for patternThresholding
GrayFar == Img(TRUE, <<MidGray, MidGray>>, <<900>>, "ok")
GrayOne == Img(TRUE, <<MidGray, MidGray>>, <<10>>, "ok")
GraySiftError == Img(TRUE, <<MidGray, MidGray>>, <<10>>, "error")
EmptyColor == Img(TRUE, <<>>, <<>>, "ok")
MatchQueries ==
    {NoneImage, GraySiftError, GrayBlank, GrayTextured, GrayOne, GrayFar, EmptyColor}

\* references for patternThresholding: (pattern_cv_gray, pattern_name)
Ref(img, name) == [img |-> img, name |-> name]
RefA == Ref(Img(FALSE, <<Gray1(128)>>, <<10>>, "ok"), "a.png")
RefB == Ref(Img(FALSE, <<Gray1(128)>>, <<50, 12>>, "ok"), "b.png")
RefC == Ref(Img(FALSE, <<Gray1(128)>>, <<11>>, "ok"), "c.png")
RefNone == Ref(NoneImage, "none.png")
RefBlank == Ref(Img(FALSE, <<Gray1(128)>>, <<>>, "ok"), "blank.png")
RefSiftError == Ref(Img(FALSE, <<Gray1(128)>>, <<10>>, "error"), "sifterror.png")
RefMatchError == Ref(Img(FALSE, <<Gray1(128)>>, <<10>>, "matcherror"), "matcherror.png")
RefPool == {RefA, RefB, RefC, RefNone, RefBlank, RefSiftError, RefMatchError}
RefLists == SeqsUpTo(RefPool, MaxRefs)

\* arguments for load_and_process_frame_pair
EvalFrames == {GrayTextured, GrayBlank, GrayFar, AllWhite, Img(TRUE, <<>>, <<>>, "ok")}
EvalRefLists == {<<>>, <<RefA, RefB>>, <<RefBlank>>}
EvalChats == {ChatText(TxtFalse), ChatText(TxtTrue), ChatException, ChatNullContent}

Probes ==
    {Probe("solid", i, NoneImage, <<>>, NoChat, AllOn) : i \in SolidImages}
    \cup {Probe("detect", NoneImage, f, <<>>, c, AllOn) :
              f \in {NoneImage, GrayTextured}, c \in DetectChats}
    \cup {Probe("match", q, NoneImage, rs, NoChat, AllOn) :
              q \in MatchQueries, rs \in RefLists}
    \cup {Probe("evaluate", f, GrayTextured, rs, c, g) :
              f \in EvalFrames, rs \in EvalRefLists, c \in EvalChats, g \in Configs}

FnInit ==
    /\ probe \in Probes
    /\ answer = NoAnswer
    /\ pc = "Call"
    /\ config = AllOn
    /\ pattern_image_paths = <<>>
    /\ rawVideo = [opens |-> FALSE, len |-> 0]
    /\ rsVideo = [opens |-> FALSE, len |-> 0]
    /\ outTree = {}
    /\ loaded_patterns = <<>>
    /\ cap_raw = "none"
    /\ cap_realsense = "none"
    /\ rawNext = 0
    /\ rsNext = 0
    /\ raw_frame = NoneImage
    /\ realsense_frame = NoneImage
    /\ frame_count = 0
    /\ processed_frame_count = 0
    /\ removed_images_log_data = <<>>
    /\ logFile = <<>>
    /\ zipFile = NoZip
    /\ result = Running
    /\ verdicts = <<>>
    /\ calls = <<>>
    /\ chat = NoChat

runVars == <<config, pattern_image_paths, rawVideo, rsVideo, outTree,
             loaded_patterns, cap_raw, cap_realsense, rawNext, rsNext,
             raw_frame, realsense_frame, frame_count, processed_frame_count,
             removed_images_log_data, logFile, zipFile, result, verdicts,
             calls, chat>>

\* is_mostly_black_or_white(image) with the default cutoffs
CallSolid ==
    /\ pc = "Call"
    /\ probe.fn = "solid"
    /\ answer' =
          IF is_mostly_black_or_white_raises(probe.image)
          THEN Answer(TRUE, TRUE, FALSE, NoName, NoneVal, NoVerdict)
          ELSE Answer(TRUE, FALSE,
                      is_mostly_black_or_white(probe.image, BlackThreshDefault,
                          WhiteThreshDefault, PercentageThreshDefault),
                      NoName, NoneVal, NoVerdict)
    /\ pc' = "Returned"
    /\ UNCHANGED <<probe, runVars>>

\* modelObjectDetection(frame, prompt) with the client doing probe.chat
CallDetect ==
    /\ pc = "Call"
    /\ probe.fn = "detect"
    /\ LET r == modelObjectDetection(probe.raw, probe.chat)
       IN  answer' = Answer(TRUE, FALSE, r.objects_detected, NoName, r.content,
                            NoVerdict)
    /\ pc' = "Returned"
    /\ UNCHANGED <<probe, runVars>>

\* patternThresholding(image, references, 200)
CallMatch ==
    /\ pc = "Call"
    /\ probe.fn = "match"
    /\ answer' =
          IF patternThresholding_raises(probe.image)
          THEN Answer(TRUE, TRUE, FALSE, NoName, NoneVal, NoVerdict)
          ELSE Answer(TRUE, FALSE, FALSE,
                      patternThresholding(probe.image, probe.patterns,
                                          SiftDistanceDefault),
                      NoneVal, NoVerdict)
    /\ pc' = "Returned"
    /\ UNCHANGED <<probe, runVars>>

\* load_and_process_frame_pair(raw, realsense, references, flags ...)
CallEvaluate ==
    /\ pc = "Call"
    /\ probe.fn = "evaluate"
    /\ LET v == load_and_process_frame_pair(
                    probe.raw, probe.image, probe.patterns,
                    Get(probe.flags.solid, TRUE), Get(probe.flags.obj, TRUE),
                    Get(probe.flags.pat, TRUE), probe.chat, SiftDistanceDefault)
       IN  answer' = Answer(TRUE, v.raised, v.accepted, NoName, NoneVal,
                            [accepted |-> v.accepted, result |-> v.result,
                             calls |-> v.calls])
    /\ pc' = "Returned"
    /\ UNCHANGED <<probe, runVars>>

FnNext ==
    \/ CallSolid
    \/ CallDetect
    \/ CallMatch
    \/ CallEvaluate

FnSpec == FnInit /\ [][FnNext]_vars

\* the call runs to its end: every step of the function is eventually taken
FairSpec == Spec /\ WF_vars(Next)

(* ============================ properties =============================== *)
Min(a, b) == IF a <= b THEN a ELSE b

\* the positions of the function after the while loop
AfterLoop == {"Exhausted", "Finalizing", "Archiving", "Done"}

\* the image files of a tree
FrameFiles(tree) == {f \in tree : f.name.ext = ".png"}

\* the label directories holding an image of pair i
LabelsOf(tree, i) ==
    {f.dir[1] : f \in {g \in FrameFiles(tree) : g.name.num = Pad05(i)}}

\* both images of pair i are below label l
PersistedUnder(tree, i, l) ==
    /\ File(<<l, "raw">>, FrameName(RawStem, i)) \in tree
    /\ File(<<l, "realsense">>, FrameName(RealsenseStem, i)) \in tree

\* how many log entries name pair i
LogCount(log, i) ==
    Cardinality({k \in 1..Len(log) : log[k].file_name = FrameName(RawStem, i)})

AcceptedPairs(tree, n) == {i \in 0..(n - 1) : LabelsOf(tree, i) # {}}

RECURSIVE DigitsValue(_)
DigitsValue(ds) ==
    IF ds = <<>> THEN 0
    ELSE 10 * DigitsValue(SubSeq(ds, 1, Len(ds) - 1)) + ds[Len(ds)]

\* the log entries the verdicts of pairs k.. call for, in reading order
RECURSIVE RejectedFrom(_, _)
RejectedFrom(vs, k) ==
    IF k > Len(vs) THEN <<>>
    ELSE IF vs[k].accepted THEN RejectedFrom(vs, k + 1)
    ELSE <<[file_name |-> FrameName(RawStem, k - 1), reason |-> vs[k].result]>>
         \o RejectedFrom(vs, k + 1)

IsPrefix(s, t) == Len(s) <= Len(t) /\ SubSeq(t, 1, Len(s)) = s

C2_State ==
    /\ removed_images_log_data = RejectedFrom(verdicts, 1)
    /\ \A j, k \in 1..Len(removed_images_log_data) :
          j < k => DigitsValue(removed_images_log_data[j].file_name.num)
                     < DigitsValue(removed_images_log_data[k].file_name.num)
    /\ pc \in {"Archiving", "Done"} =>
          logFile = <<LogHeader>> \o removed_images_log_data

C2_Step == IsPrefix(removed_images_log_data, removed_images_log_data')

\* C2: the rejection log holds exactly the rejected pairs, one entry each, in
\* strictly increasing frame index, the written file lists the same entries,
\* and during the run entries are only ever appended.
C2_RejectionLog == [](C2_State) /\ [][C2_Step]_vars

C2_Witness ==
    /\ pc = "Done"
    /\ Len(removed_images_log_data) >= 2
    /\ \E i \in 1..Len(verdicts) : verdicts[i].accepted

C3_State ==
    pc \in AfterLoop =>
        \A i \in 0..(Len(verdicts) - 1) :
            verdicts[i + 1].accepted =>
                /\ Cardinality(LabelsOf(outTree, i)) = 1
                /\ \E l \in LabelsOf(outTree, i) : PersistedUnder(outTree, i, l)

C3_Step == pc \in AfterLoop => FrameFiles(outTree') = FrameFiles(outTree)

\* C3: when the loop has ended every accepted pair is on disk under exactly
\* one label directory, and from then on (log file, archive) no image file is
\* written or removed.
C3_PersistedBeforeFinalize == [](C3_State) /\ [][C3_Step]_vars

C3_Witness ==
    /\ pc = "Finalizing"
    /\ \E i \in 1..Len(verdicts) : verdicts[i].accepted

\* the last step evaluated a pair: its frames, calls and chat are in the state
JustEvaluated ==
    \/ pc = "Read" /\ frame_count > 0
    \/ pc = "Failed" /\ result.kind \in {"TypeError", "cv2.error"}

Called(stage) == \E k \in 1..Len(calls) : calls[k] = stage

\* cs lists stages in the order of order, each at most once
RECURSIVE InOrder(_, _)
InOrder(cs, order) ==
    IF cs = <<>> THEN TRUE
    ELSE IF order = <<>> THEN FALSE
    ELSE IF Head(cs) = Head(order) THEN InOrder(Tail(cs), Tail(order))
    ELSE InOrder(cs, Tail(order))

SolidDegenerate ==
    is_mostly_black_or_white(realsense_frame, BlackThreshDefault,
                             WhiteThreshDefault, PercentageThreshDefault)

\* C4: for every pair the stages run in the order solid-frame, scene-content,
\* pattern-matching; the inference call is made only if the solid-frame stage
\* is disabled or found the realsense frame not degenerate; the pattern
\* matcher is invoked only if the pair was rejected by neither earlier stage.
C4_StageOrder ==
    JustEvaluated =>
        /\ InOrder(calls, <<"solid", "objects", "pattern">>)
        /\ Called("objects") => (~Get(config.solid, TRUE) \/ ~SolidDegenerate)
        /\ Called("pattern") =>
              /\ pc = "Read"
              /\ verdicts[Len(verdicts)].accepted
              /\ Get(config.solid, TRUE) => ~SolidDegenerate
              /\ Get(config.obj, TRUE) =>
                    ~modelObjectDetection(raw_frame, chat).objects_detected

C4_Witness ==
    /\ JustEvaluated
    /\ calls = <<"solid", "objects", "pattern">>

\* C5 (as claimed): a completed run that accepted no pair creates no archive
\* and returns None for it.
C5_NoArchiveWithoutAccepted ==
    (pc = "Done" /\ AcceptedPairs(outTree, frame_count) = {}) =>
        /\ ~zipFile.exists
        /\ result.zip = NoName

\* C6 (as claimed): no frame with index >= min(m, n) is ever read from either
\* source, and after the loop exactly min(m, n) pairs were evaluated.
C6_NeverReadsPastMin ==
    (cap_raw # "none" /\ rawVideo.opens /\ rsVideo.opens) =>
        /\ rawNext <= Min(rawVideo.len, rsVideo.len)
        /\ rsNext <= Min(rawVideo.len, rsVideo.len)
        /\ pc \in AfterLoop => frame_count = Min(rawVideo.len, rsVideo.len)

\* frames a source of length len has delivered when the loop ends at pair k
ReadAtExit(len, k) == IF len > k THEN k + 1 ELSE k

\* C6 (amended): at most min(m, n) pairs are evaluated, exactly min(m, n) once
\* the loop has ended; the loop ends in the first iteration in which a source
\* yields no frame, and in that iteration both sources are still read, so the
\* longer source delivers its frame of index min(m, n), which is dropped
\* unevaluated; no frame of index > min(m, n) is ever read.
C6_ReadsAtMostOnePastMin ==
    (cap_raw # "none" /\ rawVideo.opens /\ rsVideo.opens) =>
        LET k == Min(rawVideo.len, rsVideo.len)
        IN  /\ rawNext <= k + 1
            /\ rsNext <= k + 1
            /\ frame_count <= k
            /\ Len(verdicts) <= k
            /\ pc = "Read" => (rawNext = frame_count /\ rsNext = frame_count)
            /\ pc \in AfterLoop =>
                  /\ frame_count = k
                  /\ Len(verdicts) = k
                  /\ rawNext = ReadAtExit(rawVideo.len, k)
                  /\ rsNext = ReadAtExit(rsVideo.len, k)

C6_Witness ==
    /\ pc = "Done"
    /\ rawVideo.len = 1
    /\ rsVideo.len = 3
    /\ rsNext = 2
    /\ frame_count = 1

SourceOpenFails == ~rawVideo.opens \/ ~rsVideo.opens

\* C7: when a source fails to open the call raises IOError before any
\* processing: no frame is read, no pair is evaluated or persisted, no
\* rejection log and no archive is written.
C7_OpenFailureIsFatal ==
    SourceOpenFails =>
        /\ pc \in {"Idle", "Opening", "Failed"}
        /\ pc = "Failed" =>
              result.kind \in {"IOError: Could not open raw video",
                               "IOError: Could not open RealSense video"}
        /\ rawNext = 0
        /\ rsNext = 0
        /\ verdicts = <<>>
        /\ calls = <<>>
        /\ pc # "Idle" => outTree = {}
        /\ logFile = <<>>
        /\ ~zipFile.exists

C7_Witness ==
    /\ pc = "Failed"
    /\ rawVideo.opens
    /\ ~rsVideo.opens
    /\ rsVideo.len > 0

\* C8 (as claimed): once both sources have opened the run never fails: the
\* only way into Failed is a source that did not open, and every evaluation
\* ends in a verdict with the run still streaming.
C8_OnlyOpenFailureFails ==
    /\ pc = "Failed" => SourceOpenFails
    /\ (rawVideo.opens /\ rsVideo.opens /\ calls # <<>>) =>
          Len(verdicts) >= 1

\* C9 (as claimed): with both sources opening, a run never fails, stops only
\* in Done, and the log file and the archive exist only after the loop has
\* ended and both sources were released.
C9_RunsToDone ==
    (rawVideo.opens /\ rsVideo.opens) =>
        /\ pc # "Failed"
        /\ pc = "Done" \/ ENABLED Next
        /\ (logFile # <<>> \/ zipFile.exists) =>
              /\ pc \in {"Archiving", "Done"}
              /\ cap_raw = "released"
              /\ cap_realsense = "released"

InferenceFailed == chat.kind \in {"exception", "nokey", "nullcontent"}

\* C10 (as claimed): when the inference call fails for a pair the stage
\* reports disqualified, the pair is rejected and logged, and the run goes on.
C10_InferenceFailureRejects ==
    (JustEvaluated /\ Called("objects") /\ InferenceFailed) =>
        /\ pc = "Read"
        /\ ~verdicts[Len(verdicts)].accepted
        /\ Len(removed_images_log_data) >= 1
        /\ removed_images_log_data[Len(removed_images_log_data)].file_name
               = FrameName(RawStem, frame_count - 1)

(* ------------------ properties of the stage functions ------------------ *)
Returned_(fn) == pc = "Returned" /\ probe.fn = fn

\* lower case of a letter
ToLower(c) ==
    CASE c = "A" -> "a" [] c = "E" -> "e" [] c = "F" -> "f" [] c = "L" -> "l"
      [] c = "R" -> "r" [] c = "S" -> "s" [] c = "T" -> "t" [] c = "U" -> "u"
      [] OTHER -> c

\* word (in lower case) occurs in text, whatever the case of text's letters
Occurs(word, text) ==
    \E from \in 1..Len(text) :
        /\ from + Len(word) - 1 <= Len(text)
        /\ [k \in 1..Len(word) |-> ToLower(text[from + k - 1])] = word

LowerFalse == <<"f", "a", "l", "s", "e">>
LowerTrue == <<"t", "r", "u", "e">>

\* the detect call got a str from the client for a frame that is not None
TextAnswered == Returned_("detect") /\ probe.raw.valid /\ probe.chat.kind = "text"

\* C11 (as claimed): not disqualified only when the response contains "False"
\* in any case, and a response asserting both True and False is disqualifying.
C11_AmbiguousIsDisqualifying ==
    TextAnswered =>
        /\ ~answer.bool => Occurs(LowerFalse, probe.chat.content)
        /\ (Occurs(LowerTrue, probe.chat.content)
              /\ Occurs(LowerFalse, probe.chat.content)) => answer.bool

\* C11 (amended): not disqualified exactly when the client returned a str
\* that contains "false" in any case, anywhere, also beside "True"; every
\* other outcome of the call is disqualifying.
C11_FalseAnywhereQualifies ==
    Returned_("detect") =>
        (~answer.bool <=>
            /\ probe.raw.valid
            /\ probe.chat.kind = "text"
            /\ Occurs(LowerFalse, probe.chat.content))

C11_Witness ==
    /\ TextAnswered
    /\ probe.chat.content = TxtBoth
    /\ ~answer.bool

\* the matcher returned (it did not raise) for the probe
Matched == Returned_("match") /\ ~answer.raised

\* the query can be evaluated: not None, SIFT runs, it has keypoints
QueryHasFeatures(q) == q.valid /\ q.sift = "ok" /\ Len(q.kp) > 0

\* good-match count of reference j of the probe (0 for a skipped reference)
GoodCount(j) ==
    IF PatternUsable(probe.patterns[j])
    THEN NumGoodMatches(probe.image.kp, probe.patterns[j].img.kp, SiftDistanceDefault)
    ELSE 0

\* the references of the probe with the greatest good-match count
Best == {j \in 1..Len(probe.patterns) :
            \A k \in 1..Len(probe.patterns) : GoodCount(k) <= GoodCount(j)}

\* C12: for a query with features, when some reference has a good-match count
\* above zero the matcher returns the label of the earliest-listed reference
\* among those with the greatest count; no reference has a greater count than
\* the one whose label is returned.
C12_BestPatternFirstOnTie ==
    (Matched /\ QueryHasFeatures(probe.image)
       /\ \E j \in 1..Len(probe.patterns) : GoodCount(j) > 0) =>
        \E j \in Best :
            /\ \A k \in Best : j <= k
            /\ answer.name = Name(probe.patterns[j].name)

C12_Witness ==
    /\ Matched
    /\ probe.image = GrayOne
    /\ probe.patterns = <<RefC, RefBlank, RefA>>
    /\ GoodCount(1) = 1
    /\ GoodCount(3) = 1
    /\ answer.name = Name("c.png")

EarlierStagesPass ==
    /\ Get(config.solid, TRUE) =>
          /\ ~is_mostly_black_or_white_raises(realsense_frame)
          /\ ~SolidDegenerate
    /\ Get(config.obj, TRUE) =>
          ~modelObjectDetection(raw_frame, chat).objects_detected

NoPathLoads ==
    \A k \in 1..Len(pattern_image_paths) :
        pattern_image_paths[k].loads # "ok" \/ ~pattern_image_paths[k].img.valid

\* C14: with pattern matching enabled and no reference loaded (no path
\* supplied, or none of the supplied paths loading), every pair passing the
\* earlier stages is accepted and persisted under "No_Patterns_Available",
\* the pattern matcher is not called, and the evaluation does not raise.
C14_NoReferencesIsALabel ==
    /\ (pc # "Idle" /\ NoPathLoads) => loaded_patterns = <<>>
    /\ (/\ JustEvaluated
        /\ Get(config.pat, TRUE)
        /\ loaded_patterns = <<>>
        /\ EarlierStagesPass) =>
          /\ pc = "Read"
          /\ verdicts[Len(verdicts)].accepted
          /\ verdicts[Len(verdicts)].result = Label(NoPatternsAvailable)
          /\ PersistedUnder(outTree, frame_count - 1, NoPatternsAvailable)
          /\ ~Called("pattern")

\* pattern matching switched on, the one supplied path unreadable
C14_Witness ==
    /\ pc = "Read"
    /\ frame_count > 0
    /\ config.pat = "on"
    /\ pattern_image_paths = <<Unreadable>>
    /\ verdicts[Len(verdicts)].result = Label(NoPatternsAvailable)
    /\ calls = <<"solid", "objects">>

\* the gray values of the pixels of an image, in order
GrayValues(image) == [i \in 1..Len(image.px) |-> Intensity(image, i)]

\* how many values of seq are at most v (dark) or at least v (bright)
RECURSIVE Dark(_, _)
Dark(seq, v) ==
    IF seq = <<>> THEN 0
    ELSE (IF Head(seq) <= v THEN 1 ELSE 0) + Dark(Tail(seq), v)
RECURSIVE Bright(_, _)
Bright(seq, v) ==
    IF seq = <<>> THEN 0
    ELSE (IF Head(seq) >= v THEN 1 ELSE 0) + Bright(Tail(seq), v)

SolidAnswered ==
    /\ Returned_("solid")
    /\ ~answer.raised
    /\ probe.image.valid
    /\ Len(probe.image.px) > 0

C16_EmptyImageIsNotDegenerate ==
    (/\ Returned_("solid")
     /\ ~probe.image.valid \/ Len(probe.image.px) = 0) =>
        /\ ~answer.raised
        /\ ~answer.bool

\* only the solid-colour check is enabled
SolidOnly ==
    /\ Get(config.solid, TRUE)
    /\ ~Get(config.obj, TRUE)
    /\ ~Get(config.pat, TRUE)

\* the solid-frame stage rejects the pair about to be evaluated
SolidRejects ==
    /\ Get(config.solid, TRUE)
    /\ ~is_mostly_black_or_white_raises(realsense_frame)
    /\ SolidDegenerate

SolidEntry(i, wording) ==
    [file_name |-> FrameName(RawStem, i),
     reason |-> [text |-> wording, arg |-> <<>>]]

\* C17 (as claimed): a pair rejected by the solid-frame stage is logged with
\* the reason reading "mostly solid color", and with only the solid-colour
\* check enabled every entry of the log reads so.
C17_ReasonReadsMostlySolidColor ==
    /\ (JustEvaluated /\ pc = "Read" /\ SolidRejects) =>
          /\ Len(removed_images_log_data) >= 1
          /\ removed_images_log_data[Len(removed_images_log_data)]
                 = SolidEntry(frame_count - 1, "mostly solid color")
    /\ SolidOnly =>
          \A k \in 1..Len(removed_images_log_data) :
              removed_images_log_data[k].reason.text = "mostly solid color"

C17_State ==
    SolidOnly =>
        \A k \in 1..Len(removed_images_log_data) :
            removed_images_log_data[k].reason.text = "Rejected: Mostly black or white"

C17_Step ==
    /\ (pc = "Evaluate" /\ SolidRejects) =>
          /\ pc' = "Read"
          /\ removed_images_log_data' =
                 Append(removed_images_log_data,
                        SolidEntry(frame_count, "Rejected: Mostly black or white"))
    /\ (SolidOnly /\ ~(pc = "Evaluate" /\ SolidRejects)) =>
          removed_images_log_data' = removed_images_log_data

\* C17 (amended): every pair rejected by the solid-frame stage is appended to
\* the rejection log under its raw frame name with the reason "Rejected:
\* Mostly black or white"; with only the solid-colour check enabled nothing
\* else ever changes the log, so it holds one such entry per pair whose
\* realsense frame is degenerate and no other entry.
C17_SolidRejectionLogged == [](C17_State) /\ [][C17_Step]_vars

\* an accepted pair followed by a solid-frame rejection, solid check alone
C17_Witness ==
    /\ SolidOnly
    /\ pc = "Read"
    /\ Len(verdicts) = 2
    /\ verdicts[1].accepted
    /\ removed_images_log_data = <<SolidEntry(1, "Rejected: Mostly black or white")>>

\* the two image files of every accepted pair, each under its label
AcceptedFiles ==
    UNION {{File(<<verdicts[k].result.text, "raw">>, FrameName(RawStem, k - 1)),
            File(<<verdicts[k].result.text, "realsense">>,
                 FrameName(RealsenseStem, k - 1))} :
           k \in {j \in 1..Len(verdicts) : verdicts[j].accepted}}

\* C18 (as claimed): a produced archive contains exactly the accepted pairs,
\* one raw and one realsense image each under the pair's label, and no other
\* entry.
C18_ArchiveHoldsExactlyAcceptedPairs ==
    zipFile.exists => zipFile.entries = AcceptedFiles

Evaluated == Returned_("evaluate")

\* the probed pair is rejected by neither the solid-frame stage nor the
\* scene-content stage (each passing when disabled)
PairPasses ==
    /\ Get(probe.flags.solid, TRUE) =>
          /\ ~is_mostly_black_or_white_raises(probe.image)
          /\ ~is_mostly_black_or_white(probe.image, BlackThreshDefault,
                                       WhiteThreshDefault, PercentageThreshDefault)
    /\ Get(probe.flags.obj, TRUE) =>
          ~modelObjectDetection(probe.raw, probe.chat).objects_detected

\* the realsense frame is None or holds pixels, as every frame of a video does
FrameHasPixels == ~probe.image.valid \/ Len(probe.image.px) > 0

AllStagesOff == config.solid = "off" /\ config.obj = "off" /\ config.pat = "off"

\* C20: a stage switched off is never executed; with all three stages off
\* every pair read is accepted and persisted under "Uncategorized", the
\* rejection log stays empty and no stage function is called; with pattern
\* matching off every accepted pair is labelled "Uncategorized".
C20_DisabledStageNeverRuns ==
    /\ config.solid = "off" => ~Called("solid")
    /\ config.obj = "off" => (~Called("objects") /\ chat = NoChat)
    /\ config.pat = "off" => (~Called("pattern") /\ loaded_patterns = <<>>)
    /\ AllStagesOff =>
          /\ calls = <<>>
          /\ removed_images_log_data = <<>>
          /\ Len(verdicts) = frame_count
          /\ pc # "Failed" \/ SourceOpenFails
          /\ \A k \in 1..Len(verdicts) :
                /\ verdicts[k].accepted
                /\ verdicts[k].result = Label("Uncategorized")
                /\ PersistedUnder(outTree, k - 1, "Uncategorized")
    /\ config.pat = "off" =>
          \A k \in 1..Len(verdicts) :
              verdicts[k].accepted => verdicts[k].result = Label("Uncategorized")

\* every stage off, patterns supplied: an all-white frame has just been
\* accepted as the second pair of the run
C20_Witness ==
    /\ AllStagesOff
    /\ pattern_image_paths = <<Unreadable, PatternA, PatternB>>
    /\ pc = "Read"
    /\ frame_count = 2
    /\ realsense_frame = AllWhite
    /\ verdicts[2] = [accepted |-> TRUE, result |-> Label("Uncategorized")]

\* the step evaluates a pair and ends without accepting it
EndsUnaccepted ==
    \/ pc' = "Failed"
    \/ pc' = "Read" /\ ~verdicts'[Len(verdicts')].accepted

C21_Step ==
    pc = "Evaluate" =>
        /\ loaded_patterns' = loaded_patterns
        /\ pattern_image_paths' = pattern_image_paths
        /\ config' = config
        /\ IsPrefix(removed_images_log_data, removed_images_log_data')
        /\ EndsUnaccepted => outTree' = outTree

\* C21: evaluating a pair changes neither the loaded patterns, nor the
\* configuration, nor the entries the rejection log already holds, and a pair
\* that is not accepted leaves the output tree as it was.
C21_EvaluationFrame == [][C21_Step]_vars

\* patterns loaded, one pair accepted, then two pairs rejected
C21_Witness ==
    /\ pc = "Read"
    /\ loaded_patterns # <<>>
    /\ Len(verdicts) = 3
    /\ verdicts[1].accepted
    /\ ~verdicts[3].accepted
    /\ Len(removed_images_log_data) = 2
    /\ FrameFiles(outTree) # {}

\* the name of pair k of a stream, spelled out for k below ten
NameOfPair(stem, k) == [stem |-> stem, num |-> <<0, 0, 0, 0, k>>, ext |-> ".png"]

\* the image files of the tree that carry index k
FilesOfPair(tree, k) ==
    {f \in FrameFiles(tree) : DigitsValue(f.name.num) = k}

C22_State ==
    pc # "Idle" =>
        /\ Len(verdicts) = frame_count
        /\ \A k \in 0..(frame_count - 1) :
              IF verdicts[k + 1].accepted
              THEN /\ FilesOfPair(outTree, k) =
                          {File(<<verdicts[k + 1].result.text, "raw">>,
                                NameOfPair("raw_frame_", k)),
                           File(<<verdicts[k + 1].result.text, "realsense">>,
                                NameOfPair("realsense_frame_", k))}
                   /\ \A j \in 1..Len(removed_images_log_data) :
                          removed_images_log_data[j].file_name
                              # NameOfPair("raw_frame_", k)
              ELSE /\ FilesOfPair(outTree, k) = {}
                   /\ Cardinality({j \in 1..Len(removed_images_log_data) :
                          removed_images_log_data[j].file_name
                              = NameOfPair("raw_frame_", k)}) = 1
        /\ \A f \in FrameFiles(outTree) : DigitsValue(f.name.num) < frame_count
        /\ \A j \in 1..Len(removed_images_log_data) :
              /\ DigitsValue(removed_images_log_data[j].file_name.num) < frame_count
              /\ \A i \in 1..(j - 1) :
                    DigitsValue(removed_images_log_data[i].file_name.num)
                        < DigitsValue(removed_images_log_data[j].file_name.num)

\* an accepted pair adds two files under names the tree did not hold, and
\* every file and log entry written before stays
C22_Step ==
    (pc = "Evaluate" /\ pc' = "Read") =>
        /\ outTree \subseteq outTree'
        /\ verdicts'[Len(verdicts')].accepted =>
              /\ Cardinality(outTree') = Cardinality(outTree) + 2
              /\ outTree' \ outTree = FilesOfPair(outTree', frame_count)
        /\ ~verdicts'[Len(verdicts')].accepted =>
              removed_images_log_data'[Len(removed_images_log_data')].file_name
                  = NameOfPair("raw_frame_", frame_count)

\* C22: the k-th pair read, accepted or rejected, is named raw_frame_<k> and
\* realsense_frame_<k> with k padded to five digits; the names of different
\* pairs differ, an accepted pair writes two new files and overwrites none,
\* and the index in every file name and log entry is the pair's place in the
\* read order.
C22_NamedByReadIndex == [](C22_State) /\ [][C22_Step]_vars

\* pair 0 rejected, pairs 1 and 2 accepted
C22_Witness ==
    /\ pc = "Done"
    /\ Len(verdicts) = 3
    /\ ~verdicts[1].accepted
    /\ verdicts[2].accepted
    /\ verdicts[3].accepted
    /\ File(<<verdicts[3].result.text, "realsense">>,
            NameOfPair("realsense_frame_", 2)) \in outTree
    /\ removed_images_log_data[1].file_name = NameOfPair("raw_frame_", 0)

\* the references of the probe the loop does not skip, in their order
UsableRefs == SelectSeq(probe.patterns, PatternUsable)

\* C23: a reference that is None, yields no descriptors or fails in SIFT or
\* in matching is skipped and the scan goes on: the matcher's answer is its
\* answer on the list without those references, and it is never the label
\* of a skipped reference.
C23_FailingReferencesSkipped ==
    Matched =>
        /\ answer.name =
              patternThresholding(probe.image, UsableRefs, SiftDistanceDefault)
        /\ \A j \in 1..Len(probe.patterns) :
              ~PatternUsable(probe.patterns[j]) =>
                  answer.name # Name(probe.patterns[j].name)

\* two failing references ahead of the one that matches
C23_Witness ==
    /\ Matched
    /\ probe.image = GrayOne
    /\ probe.patterns = <<RefSiftError, RefNone, RefA>>
    /\ answer.name = Name("a.png")

\* C24 (as claimed): when process_video_frames has returned or raised, every
\* source that opened has been released.
C24_OpenedSourcesReleasedOnExit ==
    pc \in {"Done", "Failed"} =>
        /\ rawVideo.opens => cap_raw = "released"
        /\ rsVideo.opens => cap_realsense = "released"

\* C25: processed_frame_count equals frame_count whenever the loop is at a
\* boundary, every evaluated pair raises both by one whatever its verdict,
\* and a completed run returns that count, which is the number of pairs
\* evaluated and the lesser of the two source lengths, not the number of
\* accepted pairs.
C25_CountsEvaluatedPairs ==
    /\ processed_frame_count = frame_count
    /\ processed_frame_count = Len(verdicts)
    /\ pc = "Done" =>
          /\ result.kind = "returned"
          /\ result.count = Len(verdicts)
          /\ result.count = Min(rawVideo.len, rsVideo.len)
          /\ result.count =
                 Cardinality(AcceptedPairs(outTree, frame_count))
                     + Len(removed_images_log_data)

\* a completed run that rejected one of its three pairs returns 3
C25_Witness ==
    /\ pc = "Done"
    /\ result.count = 3
    /\ Len(removed_images_log_data) = 1
    /\ Cardinality(AcceptedPairs(outTree, frame_count)) = 2

C26_State ==
    pc # "Idle" =>
        /\ outTree \cap StaleTree = {}
        /\ pc = "Opening" => outTree = {}
        /\ pc = "Done" => outTree = AcceptedFiles \cup {File(<<>>, LogFileName)}

\* the first step of a run empties the directory with no source opened yet
C26_Step ==
    pc = "Idle" =>
        /\ outTree' = {}
        /\ cap_raw' = "none"
        /\ cap_realsense' = "none"

\* C26: a run starts by emptying the job's output directory, before either
\* source is opened; nothing an earlier run left there is seen again, and
\* after a completed run the tree holds only what this run wrote: the images
\* of its accepted pairs and its rejection log.
C26_OutputDirStartsEmpty == [](C26_State) /\ [][C26_Step]_vars

\* a completed run that accepted a pair under the label the earlier run's
\* files were filed under
C26_Witness ==
    /\ pc = "Done"
    /\ PersistedUnder(outTree, 0, Uncategorized)
    /\ outTree \cap StaleTree = {}
    /\ Cardinality(outTree) = 3
====
